---- MODULE Spec2Model ----
(***************************************************************************)
(* Model of the three LXC provisioning recipes django.py, postgresql.py    *)
(* and pydev.py.  One behaviour of the model is one run of main() of one   *)
(* recipe, from the call of main() to the end of the interpreter's exit    *)
(* handlers.  The LXC container, the metadata endpoint, the host-side      *)
(* commands and the host file system are the environment: each of their    *)
(* answers is an input chosen when the program asks for it.                *)
(*                                                                         *)
(* Text is modelled as a sequence of one-character strings where the code  *)
(* looks inside it (the release codename, the prefix, the container name)  *)
(* and as a sequence of string pieces where the code only concatenates     *)
(* (the lines written to standard output and to the error stream).         *)
(***************************************************************************)
EXTENDS Integers, Sequences, FiniteSets, TLC

VARIABLES
    recipe,             \* which script is run: "django", "postgresql", "pydev"
    verbose,            \* main(verbose=...)
    prefix,             \* main(prefix=...), a sequence of characters
    pc,                 \* position of the run in main()
    step,               \* index of the next in-sandbox step of the recipe
    debian_release,     \* local debian_release of main()
    container_name,     \* local container_name of main()
    container_address,  \* local container_address of main()
    defined,            \* provider state: container.defined
    running,            \* provider state: container.running
    registered,         \* cleanup_container is in the atexit registry
    unregistered,       \* atexit.unregister(cleanup_container) has been called
    fired,              \* cleanup_container has been run by the exit machinery
    calls,              \* the provider and host operations made so far, in order
    stdout,             \* lines written to standard output
    stderr,             \* lines written to the error stream
    output,             \* the dictionary printed as JSON, <<>> while not printed
    host_proc,          \* state of the host-side process of a piped step
    endpoint,           \* what the metadata endpoint answered
    container,          \* the name the lxc.Container object was built with
    got_ips,            \* what get_ips returned, <<>> while not asked
    exit_code           \* the process exit status, -1 while the run is going on

vars == <<recipe, verbose, prefix, pc, step, debian_release, container_name,
          container_address, defined, running, registered, unregistered, fired,
          calls, stdout, stderr, output, host_proc, endpoint, container, got_ips,
          exit_code>>

-----------------------------------------------------------------------------
(* Bounds of the inputs.                                                   *)

\* Largest number of lines of a metadata response.
MaxLines == 5
\* Largest number of characters of a codename token in the response.
MaxTokLen == 2
\* Largest number of addresses get_ips returns.
MaxIps == 2

-----------------------------------------------------------------------------
(* Text helpers.                                                           *)

Recipes == {"django", "postgresql", "pydev"}

\* Characters a codename token of the response is made of.
Alphabet == {"b", "s"}

RECURSIVE SeqsUpTo(_, _)
SeqsUpTo(S, n) ==
    IF n = 0 THEN {<<>>}
    ELSE LET shorter == SeqsUpTo(S, n - 1)
         IN  shorter \cup {Append(s, c) : s \in shorter, c \in S}

\* str.lstrip(chars)
RECURSIVE LStrip(_, _)
LStrip(s, chars) ==
    IF s # <<>> /\ Head(s) \in chars THEN LStrip(Tail(s), chars) ELSE s

\* str.rstrip(chars)
RECURSIVE RStrip(_, _)
RStrip(s, chars) ==
    IF s # <<>> /\ s[Len(s)] \in chars
    THEN RStrip(SubSeq(s, 1, Len(s) - 1), chars)
    ELSE s

\* str.strip(chars)
Strip(s, chars) == RStrip(LStrip(s, chars), chars)

\* str(token) of a bytes token without quotes or escapes: b'...'
StrOfBytes(tok) == <<"b", "'">> \o tok \o <<"'">>

Jessie == <<"j", "e", "s", "s", "i", "e">>

RoleTag(r) ==
    CASE r = "django"     -> <<"_", "d", "j", "a", "n", "g", "o", "_">>
      [] r = "postgresql" -> <<"_", "p", "o", "s", "t", "g", "r", "e", "s", "q", "l", "_">>
      [] r = "pydev"      -> <<"_", "p", "y", "d", "e", "v", "_">>

\* "{}_<role>_{}".format(prefix, debian_release)
NameOf(r, p, rel) == p \o RoleTag(r) \o rel

-----------------------------------------------------------------------------
(* The release resolver.                                                   *)

\* What the metadata endpoint can do: refuse the connection, answer with an
\* HTTP error, or answer with some lines.  A line is a sequence of tokens.
FillerLine == << <<"x">> >>
CodenameLines ==
    { <<>>, << <<"C">> >> } \cup
    { << <<"C">>, tok >> : tok \in (SeqsUpTo(Alphabet, MaxTokLen) \ {<<>>}) }

Responses ==
    { [kind |-> k, lines |-> <<>>] : k \in {"unreachable", "http_error"} } \cup
    { [kind |-> "ok", lines |-> [i \in 1..n |-> FillerLine]] : n \in 0..4 } \cup
    { [kind |-> "ok",
       lines |-> [i \in 1..n |-> IF i = 5 THEN l ELSE FillerLine]] :
         n \in 5..MaxLines, l \in CodenameLines }

\* get_stable_codename(): urlopen raises URLError/HTTPError (both OSError) when
\* the endpoint is unreachable or answers with an error status, and the except
\* clause turns that into None.  lines[4] and split()[1] raise IndexError, which
\* the except clause does not catch.
get_stable_codename(resp) ==
    IF resp.kind # "ok"
    THEN [raised |-> FALSE, present |-> FALSE, value |-> <<>>]
    ELSE IF Len(resp.lines) < 5 \/ Len(resp.lines[5]) < 2
    THEN [raised |-> TRUE, present |-> FALSE, value |-> <<>>]
    ELSE [raised |-> FALSE, present |-> TRUE,
          value |-> RStrip(Strip(StrOfBytes(resp.lines[5][2]), {"b", "'"}),
                           {"\n", "'"})]

\* Mutant: the fallback is taken only when the resolver returned nothing, an
\* empty codename is kept.
ReleaseOrFallbackKeepsEmpty(res) == IF res.present THEN res.value ELSE Jessie

\* debian_release after "if not debian_release: debian_release = 'jessie'"
ReleaseOrFallback(res) ==
    IF res.present /\ res.value # <<>> THEN res.value ELSE Jessie

-----------------------------------------------------------------------------
(* The recipes: their in-sandbox steps in textual order.                   *)
(* log is what is announced before the step ("" when nothing is), err the  *)
(* text reported when the step fails, mode tells a direct attach from a    *)
(* host command piped into an attach.                                      *)

Direct(desc) == [log |-> desc, err |-> desc, mode |-> "direct"]
Piped(desc)  == [log |-> desc, err |-> desc, mode |-> "piped"]
Attach(log, err) == [log |-> log, err |-> err, mode |-> "direct"]

DjangoSteps == <<
    Direct("Updating apt"),
    Direct("Installing debian packages"),
    Direct("Installing python packages"),
    Direct("Adding user"),
    Piped("Setting user password"),
    Direct("Creating Django project"),
    Direct("Appending configuration to settings.py"),
    Direct("Updating static files configuration"),
    Direct("Creating media directory"),
    Direct("Creating nginx configuration file"),
    Direct("Copying nginx uwsgi parameter file"),
    Direct("Removing default site"),
    Direct("Setting site status to active"),
    Direct("Restarting nginx"),
    Direct("Creating uwsgi configuration file"),
    Direct("Creating uwsgi configuration directory"),
    Direct("Linking uwsgi configuration"),
    Direct("Creating uwsgi service"),
    Direct("Activating uwsgi service"),
    Direct("Starting uwsgi service") >>

PydevSteps == <<
    Direct("Unmouting X11 directory"),
    Direct("Updating apt"),
    Direct("Installing debian packages"),
    Direct("Installing GUI packages"),
    Direct("Installing python packages"),
    Direct("Adding user"),
    Piped("Setting user password"),
    Direct("Appending container name to /etc/hosts"),
    Piped("Downloading and extracting Java JDK"),
    Piped("Downloading and extracting Eclipse IDE"),
    Direct("Updating Eclipse configuration"),
    Direct("Installing PyDev") >>

PostgresqlSteps == <<
    Attach("Updating apt...", "Error updating apt!"),
    Attach("Installing packages...", "Error installing packages!"),
    Attach("Configuring PostgreSQL...", "Error configuring pg_hba.conf!"),
    Attach("", "Error configuring postgresql.conf!"),
    Attach("Restarting PostgreSQL daemon...", "Error restarting PostgresSQL daemon!"),
    Attach("Creating database user...", "Error creating database user!"),
    Attach("Creating database...", "Error creating database!") >>

Steps(r) ==
    CASE r = "django"     -> DjangoSteps
      [] r = "postgresql" -> PostgresqlSteps
      [] r = "pydev"      -> PydevSteps

\* The six lxc.id_map entries appended in one "and" chain.
IdMapEntries == << "u 0 100000 1000", "g 0 100000 1000", "u 1000 1000 1",
                   "g 1000 1000 1", "u 1001 101001 64535", "g 1001 101001 64535" >>

-----------------------------------------------------------------------------
(* Output helpers.                                                         *)

\* logger(text): django and pydev print text + "...", postgresql prints the
\* text as given; nothing is printed unless verbose.
LogLine(r, text) == IF r = "postgresql" THEN <<text>> ELSE <<text, "...">>

logger(r, v, out, text) == IF v THEN Append(out, LogLine(r, text)) ELSE out

\* The line error_exit(text) prints: django and pydev wrap the text in
\* "Error: {}!", postgresql prints the text as given.
ErrorLine(r, pieces) ==
    IF r = "postgresql" THEN pieces ELSE <<"Error: ">> \o pieces \o <<"!">>

\* The line container_run_command prints for a failure.
RunCommandError(text) == <<"Error: ", text, "!">>

\* What the interpreter prints for an exception nobody catches.
Traceback(exc, where) == <<"Traceback (most recent call last):", where, exc>>

\* Exit status of sys.exit(1) and of an uncaught exception.
FatalStatus == 1

\* The line print(json.dumps(output, sort_keys=True, indent=4)) writes.
JsonLine == <<"{", "output", "}">>

NoOutput == <<>>

\* The value generate_password() returned in this run.
Password == "<password>"

UserName(p) == p \o <<"_", "u", "s", "e", "r">>

\* The dictionary each recipe prints.
OutputOf(r, name, addr, p) ==
    CASE r = "django" ->
            [container_name |-> name, container_address |-> addr,
             user_name |-> UserName(p), user_password |-> Password,
             project_path |-> <<"/home/">> \o UserName(p) \o <<"/">> \o p
                                \o <<"_", "p", "r", "o", "j", "e", "c", "t">>]
      [] r = "postgresql" ->
            [container_name |-> name, container_address |-> addr,
             database_name |-> p \o <<"_", "d", "b">>,
             database_user |-> UserName(p), database_password |-> Password]
      [] r = "pydev" ->
            [container_name |-> name, container_address |-> addr,
             user_name |-> UserName(p), user_password |-> Password,
             startup_script |-> <<"~/.local/share/lxc/">> \o name
                                  \o <<"/start-pydev">>]

\* A call with the streams it was given: out and err are "null" (the null
\* sink), "inherit" (the streams of the script), "pipe", or "none" for a call
\* that takes no streams.
CallIO(op, arg, ok, out, err) ==
    [op |-> op, arg |-> arg, ok |-> ok, out |-> out, err |-> err]

Call(op, arg, ok) == CallIO(op, arg, ok, "none", "none")

\* The debug argument of a step: run_command and pipe_command are never
\* called with debug, which defaults to False.
StepDebug(r, k) == FALSE

\* container_run_command: both streams of the attached command are the null
\* sink unless debug, and the defaults 1 and 2 with debug.
RunCommandFds(debug) ==
    IF debug THEN [out |-> "inherit", err |-> "inherit"]
    ELSE [out |-> "null", err |-> "null"]

\* postgresql.py: the stdout= and stderr= arguments of each attach_wait; an
\* argument that is not given is the stream of the script.
PostgresqlFds == <<
    [out |-> "null",    err |-> "inherit"],
    [out |-> "null",    err |-> "null"],
    [out |-> "inherit", err |-> "inherit"],
    [out |-> "inherit", err |-> "inherit"],
    [out |-> "null",    err |-> "inherit"],
    [out |-> "null",    err |-> "inherit"],
    [out |-> "null",    err |-> "inherit"] >>

\* The streams of the attached command of step k.
AttachFds(r, k) ==
    IF r = "postgresql" THEN PostgresqlFds[k] ELSE RunCommandFds(StepDebug(r, k))

\* container_pipe_command: pydev.py passes stderr=subprocess.DEVNULL to Popen
\* unless debug; django.py passes no stderr, so the host command inherits it.
PopenStderr(r, debug) == IF r = "pydev" /\ ~debug THEN "null" ELSE "inherit"

-----------------------------------------------------------------------------
(* Decisions of the code, one operator each.                               *)

\* Mutant: the existence test is dropped.
ExistsAbortDropped(d) == FALSE

\* "if container.defined:" before create
ExistsAbort(d) == d

\* Mutant: the answer of create is not looked at.
CreateFailedIgnored(ok) == FALSE

\* "if not container.create(...):"
CreateFailed(ok) == ~ok

\* Mutant: the rollback is registered twice and so runs twice.
cleanup_container_twice(stopOk, destroyOk) ==
    << Call("stop", 0, stopOk), Call("destroy", 0, destroyOk),
       Call("stop", 0, stopOk), Call("destroy", 0, destroyOk) >>

\* Mutant: the rollback stops the container and leaves it defined.
cleanup_container_stop_only(stopOk, destroyOk) == << Call("stop", 0, stopOk) >>

\* Mutant: destroy is called only when stop reported success.
cleanup_container_guarded(stopOk, destroyOk) ==
    IF stopOk THEN << Call("stop", 0, stopOk), Call("destroy", 0, destroyOk) >>
    ELSE << Call("stop", 0, stopOk) >>

\* cleanup_container = lambda: [container.stop(), container.destroy()]
cleanup_container(stopOk, destroyOk) ==
    << Call("stop", 0, stopOk), Call("destroy", 0, destroyOk) >>

\* container.get_ips(timeout=120)[0] on an empty sequence raises IndexError
GetIpsRaises(ips) == ips = <<>>

\* Mutant: an empty address is accepted.
NoAddressIgnored(addr) == FALSE

\* "if not container_address:"
NoAddress(addr) == addr = ""

\* Mutant: the status of the attached command is not looked at.
StepFailedIgnored(status) == FALSE

\* "if container.attach_wait(...):" -- a non-zero status is a failure
StepFailed(status) == status # 0

\* Mutant: a host command that cannot be launched is passed over.
LaunchRaisesSwallowed(launched) == FALSE

\* subprocess.Popen(first_cmd, ...) raises OSError when the command cannot be
\* launched; nothing in container_pipe_command or main() catches it
LaunchRaises(launched) == ~launched

\* The host command of a piped step has been started and Popen.__exit__ has
\* not yet returned from waiting for it.
HostUnreaped(h) == h \in {"running", "exited"}

\* "if container.defined and container.running:" in container_run_command;
\* postgresql.py attaches without the test
RunnerRefuses(r, d, run) == r # "postgresql" /\ ~(d /\ run)

\* Mutant: the unregistration has no effect.
AfterUnregisterKept(reg) == reg

\* atexit.unregister(cleanup_container): the registry entry afterwards
AfterUnregister(reg) == FALSE

\* Mutant: the handler runs only when main() returned normally.
ExitHandlerRunsOnReturn(reg, code) == reg /\ code = 0

\* The exit machinery runs cleanup_container when it is still registered,
\* whatever way main() was left (return, SystemExit, uncaught exception).
ExitHandlerRuns(reg, code) == reg

-----------------------------------------------------------------------------
(* The run.                                                                *)

Prefixes == { <<>>, <<"t">> }
Addresses == {"", "10.0.3.7"}
Statuses == {0, 1}
NotAsked == [kind |-> "not asked", lines |-> <<>>]

Init ==
    /\ recipe \in Recipes
    /\ verbose \in BOOLEAN
    /\ prefix \in Prefixes
    /\ pc = "entry"
    /\ step = 1
    /\ debian_release = <<>>
    /\ container_name = <<>>
    /\ container_address = ""
    /\ defined \in BOOLEAN
    /\ running \in BOOLEAN
    /\ running => defined
    /\ registered = FALSE
    /\ unregistered = FALSE
    /\ fired = FALSE
    /\ calls = <<>>
    /\ stdout = <<>>
    /\ stderr = <<>>
    /\ output = NoOutput
    /\ host_proc = "none"
    /\ endpoint = NotAsked
    /\ container = <<>>
    /\ got_ips = <<>>
    /\ exit_code = -1

\* Mutant: the run is ended without a line on the error stream.
AbortSilently(line) ==
    /\ stderr' = stderr
    /\ exit_code' = FatalStatus
    /\ pc' = "exiting"

\* sys.exit(1) after a line on the error stream, or an uncaught exception
\* after its traceback: main() is left and the exit machinery takes over.
Abort(line) ==
    /\ stderr' = Append(stderr, line)
    /\ exit_code' = FatalStatus
    /\ pc' = "exiting"

\* The first statements of main(): prefix[0] raises IndexError on an empty
\* prefix in django.py and pydev.py; postgresql.py does not index the prefix.
MainEntry ==
    /\ pc = "entry"
    /\ IF recipe # "postgresql" /\ prefix = <<>>
       THEN Abort(Traceback("IndexError", "main"))
       ELSE /\ pc' = "resolve"
            /\ UNCHANGED <<stderr, exit_code>>
    /\ UNCHANGED <<recipe, verbose, prefix, container, got_ips, step, debian_release, container_name,
                   container_address, defined, running, registered, unregistered,
                   fired, calls, stdout, output, host_proc, endpoint>>

\* debian_release = get_stable_codename(), the fallback, and container_name.
Resolve ==
    /\ pc = "resolve"
    /\ \E resp \in Responses :
         LET res == get_stable_codename(resp) IN
         /\ endpoint' = resp
         /\ IF res.raised
            THEN /\ Abort(Traceback("IndexError", "get_stable_codename"))
                 /\ UNCHANGED <<debian_release, container_name>>
            ELSE /\ debian_release' = ReleaseOrFallback(res)
                 /\ container_name' = NameOf(recipe, prefix, ReleaseOrFallback(res))
                 /\ pc' = "check"
                 /\ UNCHANGED <<stderr, exit_code>>
    /\ UNCHANGED <<recipe, verbose, prefix, container, got_ips, step, container_address, defined,
                   running, registered, unregistered, fired, calls, stdout,
                   output, host_proc>>

\* container = lxc.Container(container_name); if container.defined: error_exit
CheckDefined ==
    /\ pc = "check"
    /\ container' = container_name
    /\ calls' = Append(calls, Call("defined", 0, defined))
    /\ IF ExistsAbort(defined)
       THEN Abort(ErrorLine(recipe, <<"Container ">> \o container_name
                                       \o <<" already exists!">>))
       ELSE /\ pc' = "create"
            /\ UNCHANGED <<stderr, exit_code>>
    /\ UNCHANGED <<recipe, verbose, prefix, got_ips, step, debian_release, container_name,
                   container_address, defined, running, registered, unregistered,
                   fired, stdout, output, host_proc, endpoint>>

\* The texts of a provider operation: django.py and pydev.py announce and
\* report the same description, postgresql.py has a text for each.
LogText(r, desc, pgLog) == IF r = "postgresql" THEN pgLog ELSE desc
ErrText(r, desc, pgErr) == IF r = "postgresql" THEN pgErr ELSE desc

\* Mutant: the container is asked for its address without being started.
AfterCreateNoStart(r) == "get_ips"

\* Where main() goes after create and the atexit registration.
AfterCreate(r) ==
    CASE r = "django"     -> "clear_id_map"
      [] r = "postgresql" -> "start"
      [] r = "pydev"      -> "append_mount"

\* container.create(...), then atexit.register(cleanup_container).
Create ==
    /\ pc = "create"
    /\ \E ok \in BOOLEAN :
         /\ stdout' = logger(recipe, verbose, stdout,
                             LogText(recipe, "Creating filesystem",
                                     "Creating filesystem..."))
         /\ calls' = Append(calls, Call("create", 0, ok))
         /\ defined' = (defined \/ ok)
         /\ IF CreateFailed(ok)
            THEN /\ Abort(ErrorLine(recipe,
                            <<ErrText(recipe, "Creating filesystem",
                                      "Failed to create the container filesystem!")>>))
                 /\ UNCHANGED registered
            ELSE /\ registered' = TRUE
                 /\ pc' = AfterCreate(recipe)
                 /\ UNCHANGED <<stderr, exit_code>>
    /\ UNCHANGED <<recipe, verbose, prefix, container, got_ips, step, debian_release, container_name,
                   container_address, running, unregistered, fired, output,
                   host_proc, endpoint>>

\* A configuration call of django.py and pydev.py that either succeeds or
\* ends the run through error_exit(description).
ConfigOp(here, next, desc, op, ok) ==
    /\ pc = here
    /\ stdout' = logger(recipe, verbose, stdout, desc)
    /\ calls' = Append(calls, Call(op, 0, ok))
    /\ IF ~ok
       THEN Abort(ErrorLine(recipe, <<desc>>))
       ELSE /\ pc' = next
            /\ UNCHANGED <<stderr, exit_code>>
    /\ UNCHANGED <<recipe, verbose, prefix, container, got_ips, step, debian_release, container_name,
                   container_address, defined, running, registered, unregistered,
                   fired, output, host_proc, endpoint>>

\* pydev.py: container.append_config_item("lxc.mount.entry", ...)
AppendMount ==
    \E ok \in BOOLEAN :
        ConfigOp("append_mount", "clear_id_map", "Appending mount entry to config",
                 "append_mount_entry", ok)

\* container.clear_config_item("lxc.id_map")
ClearIdMap ==
    \E ok \in BOOLEAN :
        ConfigOp("clear_id_map", "append_id_map", "Clearing UID and GID mappings",
                 "clear_config_item", ok)

\* Mutant: every append of the chain is called, also after one has failed.
IdMapCallsAll(n) ==
    [i \in 1..Len(IdMapEntries) |-> Call("append_config_item", i, i # n + 1)]

\* The calls of the "and" chain when the first n appends succeed: the chain
\* stops at the first append that fails.
IdMapCalls(n) ==
    [i \in 1..(IF n < Len(IdMapEntries) THEN n + 1 ELSE n) |->
        Call("append_config_item", i, i <= n)]

\* if not (append_config_item(...) and ... and append_config_item(...))
AppendIdMap ==
    /\ pc = "append_id_map"
    /\ \E n \in 0..Len(IdMapEntries) :
         /\ stdout' = logger(recipe, verbose, stdout,
                             "Appending new UID and GID mappings")
         /\ calls' = calls \o IdMapCalls(n)
         /\ IF n < Len(IdMapEntries)
            THEN Abort(ErrorLine(recipe, <<"Appending new UID and GID mappings">>))
            ELSE /\ pc' = "save_config"
                 /\ UNCHANGED <<stderr, exit_code>>
    /\ UNCHANGED <<recipe, verbose, prefix, container, got_ips, step, debian_release, container_name,
                   container_address, defined, running, registered, unregistered,
                   fired, output, host_proc, endpoint>>

\* container.save_config()
SaveConfig ==
    \E ok \in BOOLEAN :
        ConfigOp("save_config", "start", "Saving configuration", "save_config", ok)

\* container.start()
Start ==
    /\ pc = "start"
    /\ \E ok \in BOOLEAN :
         /\ stdout' = logger(recipe, verbose, stdout,
                             LogText(recipe, "Starting container",
                                     "Starting container..."))
         /\ calls' = Append(calls, Call("start", 0, ok))
         /\ running' = (running \/ ok)
         /\ IF ~ok
            THEN Abort(ErrorLine(recipe,
                         <<ErrText(recipe, "Starting container",
                                   "Failed to start the container!")>>))
            ELSE /\ pc' = "get_ips"
                 /\ UNCHANGED <<stderr, exit_code>>
    /\ UNCHANGED <<recipe, verbose, prefix, container, got_ips, step, debian_release, container_name,
                   container_address, defined, registered, unregistered, fired,
                   output, host_proc, endpoint>>

\* What get_ips(timeout=120) can return.
IpsLists == SeqsUpTo(Addresses, MaxIps)

\* The provider reported an address: the sequence has a first entry and it
\* is not empty.
HasAddress(ips) == ips # <<>> /\ ips[1] # ""

\* container_address = container.get_ips(timeout=120)[0]
\* if not container_address: error_exit(...)
GetIps ==
    /\ pc = "get_ips"
    /\ \E ips \in IpsLists :
         /\ got_ips' = ips
         /\ stdout' = logger(recipe, verbose, stdout,
                             LogText(recipe, "Getting IP address",
                                     "Getting IP address..."))
         /\ calls' = Append(calls, Call("get_ips", Len(ips), HasAddress(ips)))
         /\ IF GetIpsRaises(ips)
            THEN /\ Abort(Traceback("IndexError", "main"))
                 /\ UNCHANGED container_address
            ELSE /\ container_address' = ips[1]
                 /\ IF NoAddress(ips[1])
                    THEN Abort(ErrorLine(recipe,
                                 <<ErrText(recipe, "Getting IP address",
                                           "Failed to connect to the container")>>))
                    ELSE /\ pc' = "steps"
                         /\ UNCHANGED <<stderr, exit_code>>
    /\ UNCHANGED <<recipe, verbose, prefix, container, step, debian_release, container_name,
                   defined, running, registered, unregistered, fired, output,
                   host_proc, endpoint>>

\* Mutant: pydev.py goes straight to the result, too.
AfterStepsNoScript(r) == "emit"

\* Where main() goes after the last in-sandbox step.
AfterSteps(r) == IF r = "pydev" THEN "write_script" ELSE "emit"

AfterStep(r, k) == IF k = Len(Steps(r)) THEN AfterSteps(r) ELSE "steps"

\* The line written when the attached command of a step fails: printed by
\* container_run_command in django.py and pydev.py, by error_exit in postgresql.py.
StepError(r, text) ==
    IF r = "postgresql" THEN ErrorLine(r, <<text>>) ELSE RunCommandError(text)

\* The announcement of a step; postgresql.py announces two attaches with one line.
StepLog(r, v, out, text) == IF text = "" THEN out ELSE logger(r, v, out, text)

\* A direct step: container_run_command in django.py and pydev.py, a bare
\* attach_wait in postgresql.py.  alive tells whether the container is still
\* running when the step begins; an attach cannot succeed on a stopped one.
RunStep ==
    /\ pc = "steps"
    /\ Steps(recipe)[step].mode = "direct"
    /\ \E alive \in BOOLEAN, status \in Statuses :
         LET s == Steps(recipe)[step]
             runNow == running /\ alive
         IN  /\ status = 0 => runNow
             /\ running' = runNow
             /\ IF RunnerRefuses(recipe, defined, runNow)
                THEN /\ Abort(RunCommandError("Container does not exist or is not running"))
                     /\ UNCHANGED <<calls, stdout, step>>
                ELSE /\ stdout' = StepLog(recipe, verbose, stdout, s.log)
                     /\ calls' = Append(calls, CallIO("attach", step, status = 0,
                                                      AttachFds(recipe, step).out,
                                                      AttachFds(recipe, step).err))
                     /\ IF StepFailed(status)
                        THEN /\ Abort(StepError(recipe, s.err))
                             /\ UNCHANGED step
                        ELSE /\ step' = step + 1
                             /\ pc' = AfterStep(recipe, step)
                             /\ UNCHANGED <<stderr, exit_code>>
    /\ UNCHANGED <<recipe, verbose, prefix, container, got_ips, debian_release, container_name,
                   container_address, defined, registered, unregistered, fired,
                   output, host_proc, endpoint>>

\* container_pipe_command, first half: subprocess.Popen(first_cmd, ...) starts
\* the host-side command, or raises OSError when it cannot be launched.
PipeLaunch ==
    /\ pc = "steps"
    /\ Steps(recipe)[step].mode = "piped"
    /\ \E launched \in BOOLEAN :
         /\ calls' = Append(calls, CallIO("popen", step, launched, "pipe",
                                          PopenStderr(recipe, StepDebug(recipe, step))))
         /\ IF LaunchRaises(launched)
            THEN /\ Abort(Traceback("OSError", "container_pipe_command"))
                 /\ UNCHANGED host_proc
            ELSE /\ host_proc' = "running"
                 /\ pc' = "piped"
                 /\ UNCHANGED <<stderr, exit_code>>
    /\ UNCHANGED <<recipe, verbose, prefix, container, got_ips, step, debian_release, container_name,
                   container_address, defined, running, registered, unregistered,
                   fired, stdout, output, endpoint>>

\* container_pipe_command, the body of the with-block: container_run_command
\* with the pipe as standard input.  When it fails, the error line is written
\* and sys.exit(1) is raised inside the block: main() is left (pc "exiting")
\* with the host command not yet waited for.
PipeRun ==
    /\ pc = "piped"
    /\ \E alive \in BOOLEAN, status \in Statuses :
         LET s == Steps(recipe)[step]
             runNow == running /\ alive
         IN  /\ status = 0 => runNow
             /\ running' = runNow
             /\ IF RunnerRefuses(recipe, defined, runNow)
                THEN /\ Abort(RunCommandError("Container does not exist or is not running"))
                     /\ UNCHANGED <<calls, stdout>>
                ELSE /\ stdout' = StepLog(recipe, verbose, stdout, s.log)
                     /\ calls' = Append(calls, CallIO("attach", step, status = 0,
                                                      AttachFds(recipe, step).out,
                                                      AttachFds(recipe, step).err))
                     /\ IF StepFailed(status)
                        THEN Abort(StepError(recipe, s.err))
                        ELSE /\ pc' = "pipe_exit"
                             /\ UNCHANGED <<stderr, exit_code>>
    /\ UNCHANGED <<recipe, verbose, prefix, container, got_ips, step, debian_release, container_name,
                   container_address, defined, registered, unregistered, fired,
                   output, host_proc, endpoint>>

\* The host command ends.  This is a step of the host command, not of the
\* script: first_cmd is any command and nothing makes it end.
HostExits ==
    /\ host_proc = "running"
    /\ host_proc' = "exited"
    /\ UNCHANGED <<recipe, verbose, prefix, container, got_ips, pc, step, debian_release,
                   container_name, container_address, defined, running,
                   registered, unregistered, fired, calls, stdout, stderr,
                   output, endpoint, exit_code>>

\* The end of "with subprocess.Popen(...) as pipe_cmd:": Popen.__exit__ waits
\* for the host command, without a timeout, when the block is left normally
\* and when sys.exit unwinds through it; wait() returns once the command has
\* ended.  Its exit status is not read.
PipeWait ==
    /\ pc \in {"pipe_exit", "exiting"}
    /\ host_proc = "exited"
    /\ \E hostStatus \in Statuses :
         calls' = Append(calls, Call("host_wait", step, hostStatus = 0))
    /\ host_proc' = "waited"
    /\ IF pc = "pipe_exit"
       THEN /\ step' = step + 1
            /\ pc' = AfterStep(recipe, step)
       ELSE UNCHANGED <<step, pc>>
    /\ UNCHANGED <<recipe, verbose, prefix, container, got_ips, debian_release, container_name,
                   container_address, defined, running, registered, unregistered,
                   fired, stdout, stderr, output, endpoint, exit_code>>

\* pydev.py: write_file(host_script, ...), False on OSError
WriteScript ==
    \E ok \in BOOLEAN :
        ConfigOp("write_script", "chmod_script", "Writing startup script",
                 "write_file", ok)

\* pydev.py: chmod_file(host_script, ...), False on OSError
ChmodScript ==
    \E ok \in BOOLEAN :
        ConfigOp("chmod_script", "final_stop", "Making script executable",
                 "chmod_file", ok)

\* pydev.py: if not container.stop(): error_exit(description)
FinalStop ==
    /\ pc = "final_stop"
    /\ \E ok \in BOOLEAN :
         /\ stdout' = logger(recipe, verbose, stdout, "Stopping container")
         /\ calls' = Append(calls, Call("stop", 0, ok))
         /\ running' = (running /\ ~ok)
         /\ IF ~ok
            THEN Abort(ErrorLine(recipe, <<"Stopping container">>))
            ELSE /\ pc' = "emit"
                 /\ UNCHANGED <<stderr, exit_code>>
    /\ UNCHANGED <<recipe, verbose, prefix, container, got_ips, step, debian_release, container_name,
                   container_address, defined, registered, unregistered, fired,
                   output, host_proc, endpoint>>

\* Mutant: the rollback is unregistered before the result is printed.
EmitResultUnregistered ==
    /\ pc = "emit"
    /\ output' = OutputOf(recipe, container_name, container_address, prefix)
    /\ stdout' = Append(logger(recipe, verbose, stdout, "Success!"), JsonLine)
    /\ registered' = FALSE
    /\ unregistered' = TRUE
    /\ pc' = "unregister"
    /\ UNCHANGED <<recipe, verbose, prefix, container, got_ips, step, debian_release,
                   container_name, container_address, defined, running, fired,
                   calls, stderr, host_proc, endpoint, exit_code>>

\* logger("Success!"), the output dictionary, print(json.dumps(output, ...))
EmitResult ==
    /\ pc = "emit"
    /\ output' = OutputOf(recipe, container_name, container_address, prefix)
    /\ stdout' = Append(logger(recipe, verbose, stdout, "Success!"), JsonLine)
    /\ pc' = "unregister"
    /\ UNCHANGED <<recipe, verbose, prefix, container, got_ips, step, debian_release, container_name,
                   container_address, defined, running, registered, unregistered,
                   fired, calls, stderr, host_proc, endpoint, exit_code>>

\* atexit.unregister(cleanup_container), then main() returns: exit status 0
Unregister ==
    /\ pc = "unregister"
    /\ registered' = AfterUnregister(registered)
    /\ unregistered' = TRUE
    /\ exit_code' = 0
    /\ pc' = "exiting"
    /\ UNCHANGED <<recipe, verbose, prefix, container, got_ips, step, debian_release, container_name,
                   container_address, defined, running, fired, calls, stdout,
                   stderr, output, host_proc, endpoint>>

\* Some call of the list is a successful op.
Succeeded(cs, op) == \E i \in 1..Len(cs) : cs[i].op = op /\ cs[i].ok

\* The interpreter's exit machinery: the registered cleanup_container runs,
\* its stop and destroy answering as the provider decides.
AtExit ==
    /\ pc = "exiting"
    /\ ~HostUnreaped(host_proc)
    /\ IF ExitHandlerRuns(registered, exit_code)
       THEN \E stopOk \in BOOLEAN, destroyOk \in BOOLEAN :
              LET cs == cleanup_container(stopOk, destroyOk) IN
              /\ calls' = calls \o cs
              /\ running' = (running /\ ~Succeeded(cs, "stop"))
              /\ defined' = (defined /\ ~Succeeded(cs, "destroy"))
              /\ fired' = TRUE
       ELSE UNCHANGED <<calls, running, defined, fired>>
    /\ pc' = "done"
    /\ UNCHANGED <<recipe, verbose, prefix, container, got_ips, step, debian_release, container_name,
                   container_address, registered, unregistered, stdout, stderr,
                   output, host_proc, endpoint, exit_code>>

Next ==
    \/ MainEntry
    \/ Resolve
    \/ CheckDefined
    \/ Create
    \/ AppendMount
    \/ ClearIdMap
    \/ AppendIdMap
    \/ SaveConfig
    \/ Start
    \/ GetIps
    \/ RunStep
    \/ PipeLaunch
    \/ PipeRun
    \/ HostExits
    \/ PipeWait
    \/ WriteScript
    \/ ChmodScript
    \/ FinalStop
    \/ EmitResult
    \/ Unregister
    \/ AtExit

Spec == Init /\ [][Next]_vars

\* The steps the interpreter is sure to take: every statement of main()
\* but the attach of a step, which returns only when the attached command
\* ends, and the request of get_stable_codename(), which has no timeout.  The
\* wait at the end of the with-block is among them, and it can be taken only
\* once the host command has ended; HostExits is not among them.
Returns ==
    \/ MainEntry
    \/ CheckDefined
    \/ Create
    \/ AppendMount
    \/ ClearIdMap
    \/ AppendIdMap
    \/ SaveConfig
    \/ Start
    \/ GetIps
    \/ PipeLaunch
    \/ PipeWait
    \/ WriteScript
    \/ ChmodScript
    \/ FinalStop
    \/ EmitResult
    \/ Unregister
    \/ AtExit

\* main() is a sequential program that the interpreter keeps running: a
\* statement that can be executed is executed.  No fairness is assumed of the
\* attached commands or of the host command.
FairSpec == Spec /\ WF_vars(Returns)

-----------------------------------------------------------------------------
(* Vocabulary of the properties.                                           *)

Done == pc = "done"

IsJson(line) == line = JsonLine
IsAttach(c) == c.op = "attach"

\* How many times the result was printed on standard output.
PrintCount == Len(SelectSeq(stdout, IsJson))
Printed == PrintCount > 0

\* This run's create call succeeded.
Created == Succeeded(calls, "create")

\* The last two provider calls are stop and then destroy: the rollback.
EndsWithRollback ==
    /\ Len(calls) >= 2
    /\ calls[Len(calls) - 1].op = "stop"
    /\ calls[Len(calls)].op = "destroy"

\* The rollback action ran: the exit machinery called cleanup_container and
\* its two calls were made.
RollbackRan == fired /\ EndsWithRollback

\* Operations main() makes after create whose failure it must react to.
ForwardOps == {"append_mount_entry", "clear_config_item", "append_config_item",
               "save_config", "start", "get_ips", "attach", "write_file",
               "chmod_file"}

\* Call i is a failed operation of main() after create: one of ForwardOps, or
\* the final stop of pydev.py (a stop that destroy does not follow at once).
FailedForward(i) ==
    /\ ~calls[i].ok
    /\ \/ calls[i].op \in ForwardOps
       \/ /\ calls[i].op = "stop"
          /\ i < Len(calls)
          /\ calls[i + 1].op # "destroy"

SomeForwardFailed == \E i \in 1..Len(calls) : FailedForward(i)

-----------------------------------------------------------------------------
(* Properties.                                                             *)

\* C1 (as stated): at process exit of every run, exactly one of "the rollback
\* ran" and "the ProvisioningResult was printed" has happened, the runs that
\* fail before create succeeds included.
C1_ExclusiveInEveryRun == Done => (RollbackRan # Printed)

\* C1 (amended): in every run in which create succeeded, at process exit
\* exactly one of "the rollback ran" and "the result was printed" has happened;
\* in every run that ends before create succeeds, neither has.
C1_ExclusiveAfterCreate ==
    Done => /\ Created => (RollbackRan # Printed)
            /\ ~Created => (~fired /\ ~Printed)

\* C1 witness: a run that created the container, failed later and rolled back.
C1_Witness == Done /\ Created /\ RollbackRan /\ ~Printed /\ Succeeded(calls, "start")

\* C2: when an operation after a successful create fails, the rollback calls
\* stop and then destroy, both whatever stop returns and whether or not the
\* container was started; the exit status is 1 and no result is printed.
C2_FailureAfterCreateRollsBack ==
    (Done /\ Created /\ SomeForwardFailed) =>
        /\ RollbackRan
        /\ exit_code = 1
        /\ ~Printed

\* C2 witness: the container was never started, the rollback's stop reported
\* failure and destroy was called all the same.
C2_Witness ==
    /\ Done /\ Created /\ SomeForwardFailed
    /\ ~Succeeded(calls, "start")
    /\ EndsWithRollback
    /\ ~calls[Len(calls) - 1].ok

\* C3: when the container is already defined at the existence test, no other
\* provider call is ever made, the rollback is never registered nor run, no
\* result is printed, the container stays defined, and the exit status is 1.
C3_ExistingContainerUntouched ==
    (\E i \in 1..Len(calls) : calls[i].op = "defined" /\ calls[i].ok) =>
        /\ \A j \in 1..Len(calls) : calls[j].op = "defined"
        /\ ~registered /\ ~fired /\ ~unregistered
        /\ ~Printed
        /\ defined
        /\ pc \in {"exiting", "done"}
        /\ exit_code = 1

\* C3 witness: a finished run that found the container defined.
C3_Witness == Done /\ calls = << Call("defined", 0, TRUE) >>

\* C4: every run ends either with exit status 0 and the result printed exactly
\* once, or with a non-zero exit status, something reported on the error
\* stream and no result printed; the result is never printed twice.
C4_ResultXorError ==
    /\ PrintCount <= 1
    /\ Done => \/ exit_code = 0 /\ PrintCount = 1
               \/ exit_code > 0 /\ stderr # <<>> /\ PrintCount = 0

\* C4 witness: a successful run, result printed once.
C4_Witness == Done /\ exit_code = 0 /\ PrintCount = 1 /\ stderr = <<>>

\* A line of the form "Error: <description>!".
IsErrorForm(line) ==
    Len(line) >= 3 /\ line[1] = "Error: " /\ line[Len(line)] = "!"

\* C5 (as stated): on every exit with status 1, verbose or not, exactly one
\* line "Error: <description>!" is on the error stream and nothing was written
\* to standard output.
C5_OneErrorLineOnly ==
    (Done /\ exit_code = 1) =>
        /\ Len(stderr) = 1
        /\ IsErrorForm(stderr[1])
        /\ stdout = <<>>

\* The attach calls of the run, in the order they were made.
Attaches == SelectSeq(calls, IsAttach)

\* C6: the in-sandbox steps are attached in the order of the recipe, each at
\* most once: the k-th attach is the attach of step k, every attach before the
\* last one returned zero, and once an attach returned non-zero main() has
\* been left, so that no later step is attached.
C6_StepsInOrderUntilFirstFailure ==
    /\ \A k \in 1..Len(Attaches) :
          /\ Attaches[k].arg = k
          /\ k < Len(Attaches) => Attaches[k].ok
    /\ (Len(Attaches) > 0 /\ ~Attaches[Len(Attaches)].ok) => pc \in {"exiting", "done"}
    /\ Len(Attaches) <= Len(Steps(recipe))

\* C6 witness: a finished run whose third or later step returned non-zero
\* after all the steps before it had returned zero.
C6_Witness ==
    /\ Done
    /\ Len(Attaches) >= 3
    /\ ~Attaches[Len(Attaches)].ok
    /\ Len(Attaches) < Len(Steps(recipe))

\* C7 (as stated): a non-zero exit status of the host-side command of a piped
\* step ends the run like any step failure: main() is left, the rollback runs
\* and no result is printed.
C7_HostCommandFailureIsFatal ==
    (\E i \in 1..Len(calls) : calls[i].op = "host_wait" /\ ~calls[i].ok) =>
        /\ pc \in {"exiting", "done"}
        /\ ~Printed
        /\ Done => (RollbackRan /\ exit_code = 1)

\* C8 (as stated): whatever the endpoint does, get_stable_codename() does not
\* raise; when it returns nothing main() goes on to the existence test with
\* the release "jessie".
C8_ResolverNeverAborts ==
    endpoint # NotAsked =>
        /\ ~get_stable_codename(endpoint).raised
        /\ (pc = "check" \/ calls # <<>>)
        /\ ~get_stable_codename(endpoint).present => debian_release = Jessie

\* Some call asked for the address and got none.
NoAddressReturned ==
    \E i \in 1..Len(calls) : calls[i].op = "get_ips" /\ ~calls[i].ok

\* C9: when get_ips returns no address (an empty sequence, or a first entry
\* that is empty), no in-sandbox step is attached and no host command is
\* started, main() is left, the rollback runs (stop, then destroy), the exit
\* status is non-zero and no result is printed.
C9_NoAddressRollsBack ==
    NoAddressReturned =>
        /\ \A j \in 1..Len(calls) : calls[j].op \notin {"attach", "popen", "host_wait"}
        /\ pc \in {"exiting", "done"}
        /\ exit_code > 0
        /\ ~Printed
        /\ Done => RollbackRan

\* C9 witness: get_ips returned a sequence whose first entry is empty, and
\* the run has ended.
C9_Witness ==
    /\ Done
    /\ \E i \in 1..Len(calls) :
          calls[i].op = "get_ips" /\ ~calls[i].ok /\ calls[i].arg > 0

\* The interpreter printed a traceback: main() was left by an exception that
\* nothing caught.
UncaughtException ==
    \E i \in 1..Len(stderr) : stderr[i][1] = "Traceback (most recent call last):"

\* C10: once cleanup_container has been registered, it is never both run and
\* unregistered, and at process exit exactly one of the two has happened,
\* also when main() is left by an uncaught exception.
C10_FiredXorUnregistered ==
    /\ ~(fired /\ unregistered)
    /\ (Done /\ Created) => (fired # unregistered)
    /\ registered => Created

\* C10 witness: the rollback was registered, main() was left by an uncaught
\* exception, and the rollback ran at exit.
C10_Witness == Done /\ Created /\ UncaughtException /\ fired /\ ~unregistered

\* Some call of the run is op, whatever it answered.
Called(op) == \E i \in 1..Len(calls) : calls[i].op = op

\* Some call of the run is op and reported failure.
Failed(op) == \E i \in 1..Len(calls) : calls[i].op = op /\ ~calls[i].ok

\* C11 (as stated): on every failure path after create has been called, the
\* container does not exist at process exit, whatever create, stop and destroy
\* answered.
C11_NoResidueAfterFailure ==
    (Done /\ Called("create") /\ exit_code # 0) => ~defined

\* C11 (amended): on every failure path after create has been called, the
\* container exists at process exit exactly when create succeeded and the
\* rollback's destroy reported failure; destroy is called whatever stop
\* answered and whether or not the container was started.
C11_ResidueOnlyWhenDestroyFails ==
    (Done /\ Called("create") /\ exit_code # 0) =>
        /\ defined <=> (Created /\ Failed("destroy"))
        /\ Created => Called("destroy")

\* C11 witness: a failed run whose rollback ran on a container that was never
\* started, stop reporting failure, and destroy removed it.
C11_Witness ==
    /\ Done /\ Created /\ exit_code # 0
    /\ ~Called("start")
    /\ Failed("stop")
    /\ Succeeded(calls, "destroy")
    /\ ~defined

\* The keys of the dictionary each recipe prints.
ResultFields(r) ==
    {"container_name", "container_address"} \cup
    CASE r = "django"     -> {"user_name", "user_password", "project_path"}
      [] r = "postgresql" -> {"database_name", "database_user", "database_password"}
      [] r = "pydev"      -> {"user_name", "user_password", "startup_script"}

\* C12: in every run that exits 0 the printed dictionary has a non-empty
\* container_name, the name of the container that was created, a non-empty
\* container_address, the first address get_ips returned, and exactly the
\* recipe's other fields.
C12_ResultOfSuccessfulRun ==
    exit_code = 0 =>
        /\ Printed
        /\ DOMAIN output = ResultFields(recipe)
        /\ output.container_name # <<>>
        /\ output.container_name = container
        /\ Created
        /\ got_ips # <<>>
        /\ output.container_address = got_ips[1]
        /\ output.container_address # ""

\* C12 witness: a finished successful run in which get_ips returned more than
\* one address.
C12_Witness == Done /\ exit_code = 0 /\ Len(got_ips) > 1 /\ Printed

\* The release the name is built from, read off the endpoint's answer.
ExpectedRelease ==
    LET res == get_stable_codename(endpoint)
    IN  IF res.present /\ Len(res.value) > 0 THEN res.value ELSE Jessie

\* C13: the name the provider object is built with, hence the name of the
\* existence test, of create and of every later provider call, and the name in
\* the result, is prefix, "_<role>_" and the release: the codename the resolver
\* returned when it is present and not empty, "jessie" otherwise.
C13_ContainerName ==
    /\ calls # <<>> =>
          /\ container = prefix \o RoleTag(recipe) \o ExpectedRelease
          /\ container = container_name
    /\ Printed => output.container_name = container

\* C13 witness: the resolver returned an empty codename and the container was
\* created under the fallback name.
C13_Witness ==
    /\ Created
    /\ get_stable_codename(endpoint).present
    /\ get_stable_codename(endpoint).value = <<>>
    /\ container = prefix \o RoleTag(recipe) \o Jessie

\* C14 (as stated): when the result is written to standard output the
\* rollback is no longer armed, and in pydev.py it is not armed at the final
\* stop either, so that a failed final stop does not destroy the container.
C14_DisarmedBeforeResult ==
    /\ Printed => ~registered
    /\ pc = "final_stop" => ~registered
    /\ (Failed("stop") /\ ~Called("destroy")) => ~registered

\* C14 (amended): the rollback is unregistered after the result has been
\* printed, as the last statement of main(): it is still armed when the result
\* is written and, in pydev.py, at the final stop, and a failed final stop
\* runs the rollback, which calls destroy, and no result is printed.
C14_DisarmedAfterResult ==
    /\ unregistered => Printed
    /\ pc = "unregister" => (Printed /\ registered /\ ~unregistered)
    /\ pc = "final_stop" => (registered /\ ~Printed)
    /\ (Done /\ recipe = "pydev" /\ Called("chmod_file") /\ ~Failed("chmod_file")
          /\ Failed("stop")) => (RollbackRan /\ exit_code = 1 /\ ~Printed)

\* C14 witness: pydev.py's final stop failed and the rollback destroyed the
\* container.
C14_Witness ==
    /\ Done /\ recipe = "pydev"
    /\ Succeeded(calls, "chmod_file")
    /\ ~Printed
    /\ RollbackRan
    /\ Succeeded(calls, "destroy")

\* The container was started and is no longer running although nothing
\* stopped it: a step found it not running.
FoundNotRunning ==
    Succeeded(calls, "start") /\ ~running /\ ~Succeeded(calls, "stop")

NotRunningError == RunCommandError("Container does not exist or is not running")

\* C15 (as stated): in every recipe a step that finds the container not
\* running makes no attach call, and the run ends with exit status 1 and the
\* error "container does not exist or is not running".
C15_NoAttachWhenNotRunning ==
    FoundNotRunning =>
        /\ Len(Attaches) > 0 => Attaches[Len(Attaches)].ok
        /\ stderr = << NotRunningError >>
        /\ exit_code = 1

\* C16: when create reports failure the run ends at once with exit status 1:
\* the rollback is not registered and never runs, and create is the last call
\* made on the container.
C16_CreateFailureEndsRun ==
    Failed("create") =>
        /\ calls[Len(calls)].op = "create"
        /\ ~registered /\ ~fired /\ ~unregistered
        /\ pc \in {"exiting", "done"}
        /\ exit_code = 1
        /\ ~Printed

\* C16 witness: a finished run whose create failed.
C16_Witness == Done /\ Failed("create") /\ ~defined

\* The position of a call in the life cycle of the container.
Rank(op) ==
    CASE op = "defined" -> 1
      [] op = "create" -> 2
      [] op \in {"append_mount_entry", "clear_config_item", "append_config_item"} -> 3
      [] op = "save_config" -> 4
      [] op = "start" -> 5
      [] op = "get_ips" -> 6
      [] op \in {"popen", "attach", "host_wait"} -> 7
      [] OTHER -> 8

\* How many calls of the run are op.
Count(op) == Cardinality({i \in 1..Len(calls) : calls[i].op = op})

\* C18: the calls follow the life cycle: existence test, create, configuration
\* calls, save_config, start, get_ips, steps; no configuration call after
\* start, no attach unless start succeeded and get_ips gave an address, and
\* create, save_config, start and get_ips are each called at most once.
C18_LifecycleOrder ==
    /\ \A i \in 1..(Len(calls) - 1) : Rank(calls[i].op) <= Rank(calls[i + 1].op)
    /\ \A op \in {"defined", "create", "append_mount_entry", "clear_config_item",
                  "save_config", "start", "get_ips"} : Count(op) <= 1
    /\ Count("append_config_item") <= Len(IdMapEntries)
    /\ Called("create") => (Called("defined") /\ ~Succeeded(calls, "defined"))
    /\ Called("start") => (Created /\ (recipe # "postgresql" => Succeeded(calls, "save_config")))
    /\ Called("get_ips") => Succeeded(calls, "start")
    /\ (Called("attach") \/ Called("popen")) =>
          (Succeeded(calls, "start") /\ Succeeded(calls, "get_ips"))

\* C18 witness: a run that configured, saved, started the container, got its
\* address and attached its first steps.
C18_Witness ==
    /\ Count("append_config_item") = Len(IdMapEntries)
    /\ Succeeded(calls, "save_config")
    /\ Count("attach") >= 2

\* C19 (as stated): the host command of a piped step exists only inside the
\* with-block: when the step is over, by the attached command returning zero
\* or by sys.exit inside the block, it has been waited for, so that none is
\* running when the next step begins, when the rollback runs or when the
\* process exits; and the wait always completes: a host command that was
\* started is eventually waited for.
C19_HostCommandReaped ==
    /\ [](/\ HostUnreaped(host_proc) =>
                (pc \in {"piped", "pipe_exit"} \/ (pc = "exiting" /\ ~fired))
          /\ Count("host_wait") = Cardinality({i \in 1..Len(calls) :
                                     calls[i].op = "popen" /\ calls[i].ok})
                                  - (IF HostUnreaped(host_proc) THEN 1 ELSE 0)
          /\ fired => ~HostUnreaped(host_proc)
          /\ Done => ~HostUnreaped(host_proc))
    /\ (HostUnreaped(host_proc) ~> host_proc = "waited")

\* C20: when the host command of a piped step cannot be launched, nothing but
\* the rollback's stop and destroy is called afterwards (no attach for that
\* step, no later step), main() is left, the rollback runs, the exit status is
\* non-zero and no result is printed.
C20_LaunchFailureRollsBack ==
    \A i \in 1..Len(calls) :
        (calls[i].op = "popen" /\ ~calls[i].ok) =>
            /\ \A j \in (i + 1)..Len(calls) : calls[j].op \in {"stop", "destroy"}
            /\ \A j \in 1..Len(calls) : calls[j].op = "attach" => calls[j].arg < calls[i].arg
            /\ pc \in {"exiting", "done"}
            /\ exit_code > 0
            /\ ~Printed
            /\ Done => RollbackRan

\* C20 witness: a finished run in which the launch of a host command failed.
C20_Witness == Done /\ Failed("popen") /\ RollbackRan /\ UncaughtException

\* C21 (as stated): the streams depend on debug only: the attached command
\* of every step of every recipe has both streams on the null sink when debug
\* is false and inherited when it is true, and the host command of every piped
\* step of django.py and pydev.py has its error stream on the null sink when
\* debug is false.
C21_StreamsFollowDebug ==
    \A i \in 1..Len(calls) :
        /\ calls[i].op = "attach" =>
              IF StepDebug(recipe, calls[i].arg)
              THEN calls[i].out = "inherit" /\ calls[i].err = "inherit"
              ELSE calls[i].out = "null" /\ calls[i].err = "null"
        /\ (calls[i].op = "popen" /\ ~StepDebug(recipe, calls[i].arg)) =>
              calls[i].err = "null"

\* The operations of the container provider that report failure by their
\* return value (get_ips by an empty tuple).
ProviderOps == {"create", "append_mount_entry", "clear_config_item",
                "append_config_item", "save_config", "start", "get_ips",
                "attach", "stop"}

\* The provider calls made after call i, in order, as operation names.
ProviderOpsAfter(i) ==
    LET rest == SubSeq(calls, i + 1, Len(calls))
        IsProvider(c) == c.op \in ProviderOps \cup {"destroy"}
        sel == SelectSeq(rest, IsProvider)
    IN  [j \in 1..Len(sel) |-> sel[j].op]

\* Call i is the first provider call of the run that reported failure.
FirstProviderFailure(i) ==
    /\ calls[i].op \in ProviderOps
    /\ ~calls[i].ok
    /\ \A j \in 1..(i - 1) : calls[j].op \in ProviderOps => calls[j].ok

\* C22: after the first provider operation that reports failure no further
\* forward-progress call is made: after a failed append_config_item of the
\* lxc.id_map chain the remaining appends, save_config, start, get_ips and
\* every attach are never called; what follows the failure is nothing, or the
\* rollback's stop and destroy (destroy alone when the failed call is the
\* rollback's own stop), and never the script write or chmod.
C22_NoForwardCallAfterFailure ==
    \A i \in 1..Len(calls) :
        FirstProviderFailure(i) =>
            /\ \/ ProviderOpsAfter(i) = <<>>
               \/ ProviderOpsAfter(i) = <<"stop", "destroy">> /\ fired
               \/ /\ ProviderOpsAfter(i) = <<"destroy">>
                  /\ calls[i].op = "stop" /\ fired
            /\ \A j \in (i + 1)..Len(calls) :
                  calls[j].op \in {"stop", "destroy", "host_wait"}
            /\ pc \in {"exiting", "done"}

\* C22 witness: the third append of the lxc.id_map chain failed after two
\* that succeeded, and the run ended with the rollback.
C22_Witness ==
    /\ Done /\ RollbackRan
    /\ \E i \in 1..Len(calls) :
          /\ FirstProviderFailure(i)
          /\ calls[i].op = "append_config_item" /\ calls[i].arg = 3
          /\ calls[i - 1].op = "append_config_item" /\ calls[i - 1].ok

\* The state part of C23.
C23_AtMostOnce ==
    /\ Count("create") <= 1
    /\ Count("destroy") <= 1
    /\ registered => Created
    /\ fired => Created
    /\ Called("destroy") => (fired /\ Created /\ EndsWithRollback)

\* The step part of C23: the rollback is registered only by the step that
\* makes the one successful create call, it fires only while registered,
\* destroy is called only by the step that fires it, and after it fired no
\* call is made and it does not fire again.
C23_Step ==
    /\ (~registered /\ registered') =>
          (~Called("create") /\ calls' = Append(calls, Call("create", 0, TRUE)))
    /\ (~fired /\ fired') => (registered /\ ~unregistered)
    /\ (Count("destroy")' # Count("destroy")) => (~fired /\ fired')
    /\ fired => (fired' /\ calls' = calls /\ ~registered' = ~registered)
    /\ unregistered => ~registered'

\* C23: in every reachable state create has been called at most once, the
\* rollback has been registered at most once and has fired at most once, and
\* destroy has been called at most once, only from the rollback and only on a
\* container that this run's create call made.
C23_CreateRegisterFireDestroyOnce == [](C23_AtMostOnce) /\ [][C23_Step]_vars

\* C23 witness: a pydev.py run whose final stop failed: two stop calls, one
\* create, one destroy, the rollback fired.
C23_Witness ==
    /\ Done /\ recipe = "pydev" /\ fired
    /\ Count("create") = 1 /\ Count("stop") = 2 /\ Count("destroy") = 1
    /\ Succeeded(calls, "chmod_file")

\* Call i is the final stop of pydev.py: the stop that follows a chmod_file
\* that succeeded (after one that failed comes the rollback's stop).
IsFinalStop(i) ==
    /\ i > 1
    /\ calls[i].op = "stop"
    /\ calls[i - 1] = Call("chmod_file", 0, TRUE)

\* C24: in pydev.py the launcher script is written, and then made executable,
\* only after every in-sandbox step has succeeded (every attach and every
\* provider call before it returned success; the exit status of a host command
\* is not looked at) and before any stop; a run
\* that exits with status 0 wrote the script, made it executable and stopped
\* the container, which is kept defined and not running; and when the write,
\* the chmod or the final stop fails the run ends, the rollback fires and no
\* result is printed.
C24_ScriptAfterStepsBeforeStop ==
    recipe = "pydev" =>
        /\ \A i \in 1..Len(calls) :
              /\ calls[i].op = "write_file" =>
                    /\ Len(SelectSeq(SubSeq(calls, 1, i - 1), IsAttach))
                          = Len(PydevSteps)
                    /\ \A j \in 1..(i - 1) :
                          /\ calls[j].op \notin {"defined", "host_wait"} =>
                                calls[j].ok
                          /\ calls[j].op \notin {"stop", "destroy", "chmod_file"}
              /\ calls[i].op = "chmod_file" =>
                    /\ i > 1
                    /\ calls[i - 1] = Call("write_file", 0, TRUE)
              /\ (calls[i].op = "stop" /\ ~IsFinalStop(i)) =>
                    (fired /\ i = Len(calls) - 1)
        /\ (Done /\ exit_code = 0) =>
              /\ Succeeded(calls, "write_file")
              /\ Succeeded(calls, "chmod_file")
              /\ IsFinalStop(Len(calls)) /\ calls[Len(calls)].ok
              /\ defined /\ ~running /\ ~fired
              /\ Printed
        /\ (\/ Failed("write_file")
            \/ Failed("chmod_file")
            \/ \E i \in 1..Len(calls) : IsFinalStop(i) /\ ~calls[i].ok) =>
              /\ ~Printed
              /\ pc \in {"exiting", "done"}
              /\ exit_code = 1
              /\ Done => RollbackRan

\* C24 witness: a pydev.py run that ended with status 0: script written, made
\* executable, container stopped and kept.
C24_Witness ==
    /\ Done /\ recipe = "pydev" /\ exit_code = 0
    /\ Len(calls) > 3
    /\ calls[Len(calls) - 2] = Call("write_file", 0, TRUE)
    /\ calls[Len(calls) - 1] = Call("chmod_file", 0, TRUE)
    /\ calls[Len(calls)] = Call("stop", 0, TRUE)
    /\ ~running /\ defined

====
